---- MODULE Spec2Model ----
(***************************************************************************)
(* Customer-folder provisioning of the Itti automation layer:              *)
(* GoogleDriveService.procesar_clientes_desde_excel (services/drive.py)    *)
(* and ExcelToFoldersJob.procesar_excel_nuevos (jobs/excel_to_folders.py). *)
(* Every backend call (poll, read, folder listing page, folder search,     *)
(* folder create) is one step; the local computation that follows a call   *)
(* belongs to the step of that call.                                       *)
(***************************************************************************)
EXTENDS Integers, Sequences, FiniteSets, TLC

(***************************************************************************)
(* Bounds of the model.                                                    *)
(***************************************************************************)
MaxHojas == 2
MaxFilas == 1
MaxFolders == 2
MaxClock == 2
NumFiles == 2
MaxSubidos == 2
NumMsgs == 3
MaxResults == 2

(***************************************************************************)
(* Text: a string is a sequence of characters.                             *)
(***************************************************************************)
Espacio == " "

Ord(c) ==
    CASE c = " " -> 32
      [] c = "0" -> 48
      [] c = "7" -> 55
      [] c = "A" -> 65
      [] c = "B" -> 66
      [] c = "a" -> 97
      [] c = "b" -> 98

RECURSIVE LStrip(_)
LStrip(s) ==
    IF s # <<>> /\ Head(s) = Espacio THEN LStrip(Tail(s)) ELSE s

RECURSIVE RStrip(_)
RStrip(s) ==
    IF s # <<>> /\ s[Len(s)] = Espacio
    THEN RStrip(SubSeq(s, 1, Len(s) - 1))
    ELSE s

\* str.strip()
Strip(s) == RStrip(LStrip(s))

UpperChar(c) ==
    CASE c = "a" -> "A"
      [] c = "b" -> "B"
      [] OTHER -> c

\* str.upper()
Upper(s) == [i \in 1..Len(s) |-> UpperChar(s[i])]

\* Cliente.validar_mayusculas: the canonical form of a customer name
validar_mayusculas(v) == Upper(Strip(v))

\* s < t for Python strings (code point order)
RECURSIVE StrLess(_, _)
StrLess(s, t) ==
    IF t = <<>> THEN FALSE
    ELSE IF s = <<>> THEN TRUE
    ELSE IF Head(s) # Head(t) THEN Ord(Head(s)) < Ord(Head(t))
    ELSE StrLess(Tail(s), Tail(t))

\* sorted(S) for a set of strings
RECURSIVE Sorted(_)
Sorted(S) ==
    IF S = {} THEN <<>>
    ELSE LET m == CHOOSE x \in S : \A y \in S \ {x} : StrLess(x, y)
         IN <<m>> \o Sorted(S \ {m})

(***************************************************************************)
(* Spreadsheet rows.  Only the entry of columna_nombre matters: a row      *)
(* either lacks the column, or holds None, or holds a string, or holds a   *)
(* number, of which txt is the str().                                      *)
(***************************************************************************)
Ausente == [tipo |-> "ausente", txt |-> <<>>]
Nulo == [tipo |-> "none", txt |-> <<>>]
Txt(s) == [tipo |-> "str", txt |-> s]
Num(s) == [tipo |-> "num", txt |-> s]

Celdas ==
    { Ausente, Nulo,
      Txt(<<>>), Txt(<<" ">>),
      Txt(<<"a">>), Txt(<<"A">>), Txt(<<" ", "a", " ">>),
      Txt(<<"b">>),
      Num(<<"0">>), Num(<<"7">>) }

SeqsUpTo(S, n) == UNION { [1..k -> S] : k \in 0..n }

\* ExcelData.data: sheets, each a sequence of rows
TablasDe(C) == SeqsUpTo(SeqsUpTo(C, MaxFilas), MaxHojas)

\* the spreadsheets handed to a direct call
Tablas == TablasDe(Celdas)

\* the spreadsheets the job reads from the monitored folder
CeldasLeidas == { Nulo, Txt(<<"a">>), Txt(<<"b">>) }
TablasLeidas == TablasDe(CeldasLeidas)

\* `columna_nombre in row`
EnFila(c) == c.tipo # "ausente"

\* Python truth value of row[columna_nombre]
Truthy(c) ==
    CASE c.tipo = "none" -> FALSE
      [] c.tipo = "str" -> c.txt # <<>>
      [] c.tipo = "num" -> c.txt # <<"0">>
      [] OTHER -> FALSE

\* str(row[columna_nombre])
Str(c) == c.txt

\* lines 522-525 without the test of line 524
NombresDeFilaSinFiltro(c) ==
    IF EnFila(c) /\ Truthy(c) THEN {Strip(Str(c))} ELSE {}

\* lines 522-525: the names one row adds to `clientes`
NombresDeFila(c) ==
    IF EnFila(c) /\ Truthy(c)
    THEN LET nombre == Strip(Str(c))
         IN IF nombre # <<>> THEN {nombre} ELSE {}
    ELSE {}

\* the set `clientes` built from excel_data.data
ExtraerClientes(t) ==
    UNION { UNION { NombresDeFila(t[h][f]) : f \in 1..Len(t[h]) } : h \in 1..Len(t) }

\* every name a row of the model can yield
Nombres == UNION { NombresDeFila(c) : c \in Celdas }

(***************************************************************************)
(* Dictionaries are functions on a set of keys; {} is the empty function.  *)
(***************************************************************************)
Vacio == <<>>
Asignar(m, k, v) == (k :> v) @@ m

(***************************************************************************)
(* State.                                                                  *)
(***************************************************************************)
VARIABLES
    now,                  \* the clock read by datetime.now()
    archivos,             \* backend: modifiedTime of each spreadsheet of the folder
    drive_folders,        \* backend: folders under the parent, in creation order
    modo,                 \* "job": ExcelToFoldersJob; "directo": direct calls
    crear_carpetas,       \* argument crear_carpetas
    last_check,           \* ExcelToFoldersJob.last_check, <<>> is None
    clientes_procesados,  \* ExcelToFoldersJob.clientes_procesados
    carpetas_cache,       \* GoogleDriveService._carpetas_cache
    pc,                   \* position of the running call
    cambios,              \* the changes still to be handled by the for loop
    carpetas_nuevas,      \* local of procesar_excel_nuevos
    clientes,             \* local of procesar_clientes_desde_excel
    pendientes,           \* rest of sorted(clientes) still to be handled
    carpetas_clientes,    \* local of procesar_clientes_desde_excel
    page_token,           \* listing position of listar_todas_carpetas
    tabla,                \* excel_data of the running direct call
    detectados,           \* this pass: files the poll returned
    leidos,               \* this pass: files whose read was issued
    fallidos,             \* this pass: files whose read raised
    notificado,           \* per name: passes that returned it as new
    resueltos,            \* this call: lookups issued per name
    creados,              \* this call: folders created per name
    fallo_crear,          \* this call: names whose create call failed
    sondeo,               \* this pass: how the change query ended
    cache_previo,         \* _carpetas_cache as the running listing found it
    refresco,             \* this call: how listar_todas_carpetas ended
    refrescos,            \* this pass or direct call: listings started
    detenido,             \* KeyboardInterrupt has ended ejecutar_loop
    instancias,           \* engines that resolve names under the same parent
    subida,               \* the running or last call of subir_archivo
    guardar_local,        \* argument of procesar_correos_nuevos
    con_destino,          \* subir_a_drive, and a destination folder is known
    adjuntos,             \* Gmail: the attachment file names of each message
    no_leidos,            \* Gmail: the messages that carry the UNREAD label
    subidos,              \* Drive: files uploaded, per message and attachment
    guardados,            \* local disk: attachments written, per message
    fallado,              \* messages whose handling raised or was not marked
    epc,                  \* position of the running procesar_correos_nuevos
    correos,              \* rest of the polled messages, the current one first
    adj,                  \* rest of excel_attachments of the current message
    resultados,           \* local of procesar_correos_nuevos: ids appended
    con_callback,         \* DriveMonitorJob: callback_on_change is given
    excel_data_list,      \* local of procesar_cambios: files read, in order
    avisados,             \* this pass: files that callback_on_change was given
    cb_fallidos           \* this pass: files whose callback raised

backend == <<now, archivos, drive_folders>>
job == <<last_check, clientes_procesados, cambios, carpetas_nuevas>>
llamada == <<clientes, pendientes, carpetas_clientes, page_token>>
pasada == <<detectados, leidos, fallidos, notificado, sondeo>>
traza == <<resueltos, creados, fallo_crear>>
refresh == <<cache_previo, refresco, refrescos>>
gmail == <<guardar_local, con_destino, adjuntos, no_leidos, subidos, guardados,
           fallado, epc, correos, adj, resultados>>
monitor == <<con_callback, excel_data_list, avisados, cb_fallidos>>
aparte == <<instancias, subida, gmail, monitor>>
vars == <<backend, modo, crear_carpetas, carpetas_cache, pc, job, llamada,
          tabla, pasada, traza, refresh, detenido, aparte>>

FileIds == 1..NumFiles
Resultados == {"ok", "http", "exc"}
Cero == [n \in Nombres |-> 0]

Carpeta(n, e) == [name |-> n, trashed |-> FALSE, byEngine |-> e]

\* the folders a new backend may already hold
Preexistentes == { <<>>, <<Carpeta(<<"a">>, FALSE)>> }

InitComun ==
    /\ now = 0
    /\ archivos = [f \in FileIds |-> 0]
    /\ drive_folders \in Preexistentes
    /\ crear_carpetas \in BOOLEAN
    /\ last_check = <<>>
    /\ clientes_procesados = Vacio
    /\ carpetas_cache = Vacio
    /\ pc = "idle"
    /\ cambios = <<>>
    /\ carpetas_nuevas = Vacio
    /\ clientes = {}
    /\ pendientes = <<>>
    /\ carpetas_clientes = Vacio
    /\ page_token = 0
    /\ tabla = <<>>
    /\ detectados = {}
    /\ leidos = {}
    /\ fallidos = {}
    /\ notificado = Cero
    /\ resueltos = Cero
    /\ creados = Cero
    /\ fallo_crear = {}
    /\ sondeo = "none"
    /\ cache_previo = Vacio
    /\ refresco = "none"
    /\ refrescos = 0
    /\ detenido = FALSE

\* one engine, the one of the other variables
Instancias == 1..2
SinInstancias ==
    [i \in Instancias |-> [activa |-> FALSE, pc |-> "idle", nombre |-> <<>>,
                           fallo |-> FALSE]]

\* no upload yet
SinSubida ==
    [pc |-> "idle", ruta |-> "none", bytes |-> "none", llamadas |-> 0,
     retorno |-> "none", en_drive |-> 0]

\* the change monitor is not running
SinMonitor ==
    /\ con_callback = FALSE
    /\ excel_data_list = <<>>
    /\ avisados = {}
    /\ cb_fallidos = {}

\* no mailbox: the e-mail job is not running
SinCorreo ==
    /\ guardar_local = FALSE
    /\ con_destino = FALSE
    /\ adjuntos = <<>>
    /\ no_leidos = {}
    /\ subidos = <<>>
    /\ guardados = <<>>
    /\ fallado = {}
    /\ epc = "idle"
    /\ correos = <<>>
    /\ adj = <<>>
    /\ resultados = <<>>

\* ExcelToFoldersJob.__init__ on a fresh GoogleDriveService
Init ==
    /\ InitComun
    /\ modo = "job"
    /\ instancias = SinInstancias
    /\ subida = SinSubida
    /\ SinCorreo
    /\ SinMonitor

\* a fresh GoogleDriveService called directly
InitDirecto ==
    /\ InitComun
    /\ modo = "directo"
    /\ instancias = SinInstancias
    /\ subida = SinSubida
    /\ SinCorreo
    /\ SinMonitor

(***************************************************************************)
(* The backend (Drive) as the engine sees it.                              *)
(***************************************************************************)
\* files().list of buscar_carpeta_por_nombre: folders with that name, not trashed
Coincidencias(nombre) ==
    { i \in 1..Len(drive_folders) :
        drive_folders[i].name = nombre /\ ~drive_folders[i].trashed }

\* files().list of listar_todas_carpetas: ids of the folders not trashed, in order
Listado == SelectSeq([i \in 1..Len(drive_folders) |-> i],
                     LAMBDA i : ~drive_folders[i].trashed)

\* a query that also answers the files modified at the watermark itself
ModificadosDesde(modified_after) ==
    IF modified_after # <<>>
    THEN { f \in FileIds : archivos[f] >= modified_after[1] }
    ELSE FileIds

\* the query of listar_archivos_excel: files modified after the watermark
Modificados(modified_after) ==
    IF modified_after # <<>>
    THEN { f \in FileIds : archivos[f] > modified_after[1] }
    ELSE FileIds

\* orderBy="modifiedTime desc": the orders the backend may answer in
OrdenDesc(S) ==
    { q \in [1..Cardinality(S) -> S] :
        /\ \A i, j \in 1..Cardinality(S) : i # j => q[i] # q[j]
        /\ \A i, j \in 1..Cardinality(S) : i < j => archivos[q[i]] >= archivos[q[j]] }

(***************************************************************************)
(* ExcelToFoldersJob.procesar_excel_nuevos                                 *)
(***************************************************************************)
\* the watermark forgotten when a read of the pass failed
LastCheckSiNoFallo == IF fallidos # {} THEN <<>> ELSE <<now>>

\* the watermark kept where it is when the change query failed
LastCheckSiSondeoOk == IF sondeo = "http" THEN last_check ELSE <<now>>

\* line 45 and line 78: self.last_check = datetime.now()
NuevoLastCheck == <<now>>

\* line 69 without the ledger test: every returned name counts as new
EsNuevoSiempre(procesados, nombre) == TRUE

\* a test that counts a name as new only when this call created its folder
EsNuevoSiCreado(procesados, nombre) ==
    nombre \notin DOMAIN procesados /\ creados[nombre] > 0

\* line 69: `nombre not in self.clientes_procesados`
EsNuevo(procesados, nombre) == nombre \notin DOMAIN procesados

\* the for loop of line 52 goes on with the next change, or ends
SiguienteCambio ==
    /\ cambios' = Tail(cambios)
    /\ pc' = IF Tail(cambios) = <<>> THEN "fin" ELSE "leer"

\* the handler around the whole loop: the first exception ends the loop
ExceptFueraDelBucle ==
    /\ cambios' = <<>>
    /\ pc' = "fin"
    /\ UNCHANGED <<last_check, clientes_procesados, carpetas_nuevas>>

\* lines 75-76: the handler around the loop body; the loop goes on
ExceptEnBucle ==
    /\ SiguienteCambio
    /\ UNCHANGED <<last_check, clientes_procesados, carpetas_nuevas>>

\* the folders are listed before the changes are looked at
SinCambiosListando ==
    /\ cambios' = <<>>
    /\ detectados' = {}
    /\ carpetas_nuevas' = Vacio
    /\ pc' = "listar"
    /\ UNCHANGED last_check

\* lines 43-44: no changes; the clock is read next (line 45)
SinCambios ==
    /\ cambios' = <<>>
    /\ detectados' = {}
    /\ carpetas_nuevas' = Vacio
    /\ pc' = "fin"
    /\ UNCHANGED last_check

\* lines 231-243: files().list is called once; the files of its first page are
\* all that listar_archivos_excel sees (nextPageToken is not asked for)
PrimeraPagina(q, k) == SubSeq(q, 1, k)

Rango(q) == { q[i] : i \in 1..Len(q) }

\* lines 41-50: the change query and what follows it; the backend answers with
\* a first page of k files.  HttpError answers []
\* (line 264); another error leaves procesar_excel_nuevos (ejecutar_loop
\* catches it, line 120).
listar_archivos_excel(r, k) ==
    /\ modo = "job"
    /\ pc = "idle"
    /\ \/ /\ r = "exc"
          /\ k = 0
          /\ pc' = "idle"
          /\ UNCHANGED <<last_check, cambios, carpetas_nuevas, detectados, sondeo>>
       \/ /\ r = "http"
          /\ k = 0
          /\ sondeo' = "http"
          /\ SinCambios
       \/ /\ r = "ok"
          /\ sondeo' = "ok"
          /\ \E q \in OrdenDesc(Modificados(last_check)) :
                IF q = <<>>
                THEN k = 0 /\ SinCambios
                ELSE /\ k \in 1..Len(q)
                     /\ cambios' = PrimeraPagina(q, k)
                     /\ detectados' = Rango(PrimeraPagina(q, k))
                     /\ carpetas_nuevas' = Vacio
                     /\ pc' = "leer"
                     /\ UNCHANGED last_check
    /\ UNCHANGED <<backend, modo, detenido, aparte, crear_carpetas, carpetas_cache,
                   clientes_procesados, llamada, tabla, leidos, fallidos, notificado,
                   traza, refresh>>

\* the start of procesar_clientes_desde_excel without the listing of line 531
EmpezarClientesSinListar(t) ==
    /\ clientes' = ExtraerClientes(t)
    /\ pendientes' = Sorted(ExtraerClientes(t))
    /\ carpetas_clientes' = Vacio
    /\ page_token' = 0
    /\ resueltos' = Cero
    /\ creados' = Cero
    /\ fallo_crear' = {}
    /\ cache_previo' = carpetas_cache
    /\ refresco' = "none"
    /\ pc' = "resolver"

\* the start of procesar_clientes_desde_excel, listing only the first time in a pass
EmpezarClientesUnaVez(t) ==
    /\ clientes' = ExtraerClientes(t)
    /\ pendientes' = IF refrescos = 0 THEN <<>> ELSE Sorted(ExtraerClientes(t))
    /\ carpetas_clientes' = Vacio
    /\ page_token' = 0
    /\ resueltos' = Cero
    /\ creados' = Cero
    /\ fallo_crear' = {}
    /\ cache_previo' = carpetas_cache
    /\ refresco' = IF refrescos = 0 THEN "none" ELSE "ok"
    /\ pc' = IF refrescos = 0 THEN "listar" ELSE "resolver"

\* lines 515-527: the start of procesar_clientes_desde_excel
EmpezarClientes(t) ==
    /\ clientes' = ExtraerClientes(t)
    /\ pendientes' = <<>>
    /\ carpetas_clientes' = Vacio
    /\ page_token' = 0
    /\ resueltos' = Cero
    /\ creados' = Cero
    /\ fallo_crear' = {}
    /\ cache_previo' = carpetas_cache
    /\ refresco' = "none"
    /\ pc' = "listar"

\* every change of the pass is read before the first one is provisioned
LeidosTodos == leidos \cup Rango(cambios)

\* lines 52-57: one iteration of the loop reads the change at hand, no other
LeidosTras == leidos \cup {Head(cambios)}

\* lines 55-57: the read of one changed file
leer_excel_desde_drive(r) ==
    /\ pc = "leer"
    /\ leidos' = LeidosTras
    /\ \/ /\ r # "ok"
          /\ fallidos' = fallidos \cup {Head(cambios)}
          /\ ExceptEnBucle
          /\ UNCHANGED <<llamada, traza, refresh>>
       \/ /\ r = "ok"
          /\ \E t \in TablasLeidas : EmpezarClientes(t)
          /\ UNCHANGED <<fallidos, job, refrescos>>
    /\ UNCHANGED <<backend, modo, detenido, aparte, crear_carpetas, carpetas_cache, tabla,
                   detectados, notificado, sondeo>>

(***************************************************************************)
(* GoogleDriveService.procesar_clientes_desde_excel                        *)
(***************************************************************************)
\* the locals of a finished call are gone
OlvidarLlamada ==
    /\ clientes' = {}
    /\ pendientes' = <<>>
    /\ carpetas_clientes' = Vacio
    /\ page_token' = 0
    /\ resueltos' = Cero
    /\ creados' = Cero
    /\ fallo_crear' = {}

\* a direct call ends, by return or by exception
FinDirecta ==
    /\ pc' = "idle"
    /\ tabla' = <<>>
    /\ OlvidarLlamada
    /\ UNCHANGED job

\* an exception leaves procesar_clientes_desde_excel: in the job it is caught
\* at line 75; res and fallo are what the call had issued by then
Excepcion(res, fallo) ==
    IF modo = "job"
    THEN /\ ExceptEnBucle
         /\ resueltos' = res
         /\ fallo_crear' = fallo
         /\ UNCHANGED <<llamada, creados, tabla>>
    ELSE FinDirecta

\* lines 474-483: the entries of one page go into the cache
RECURSIVE CachearPagina(_, _)
CachearPagina(cache, ids) ==
    IF ids = <<>> THEN cache
    ELSE CachearPagina(Asignar(cache, drive_folders[Head(ids)].name, Head(ids)),
                       Tail(ids))

\* the names of the rows in row order, repeats kept
RECURSIVE NombresEnOrden(_)
NombresEnOrden(t) ==
    IF t = <<>> THEN <<>>
    ELSE (IF Head(t) # <<>> /\ NombresDeFila(Head(t)[1]) # {}
          THEN <<Strip(Str(Head(t)[1]))>> ELSE <<>>)
         \o NombresEnOrden(IF Len(Head(t)) > 1
                           THEN <<Tail(Head(t))>> \o Tail(t) ELSE Tail(t))

\* `clientes` kept as a list: the loop runs over every row
EmpezarBucleSinSet ==
    /\ pendientes' = NombresEnOrden(tabla)
    /\ page_token' = 0
    /\ pc' = "resolver"
    /\ UNCHANGED <<clientes, carpetas_clientes>>

\* lines 534-536: line 531 returned, the loop over sorted(clientes) starts
EmpezarBucle ==
    /\ pendientes' = Sorted(clientes)
    /\ page_token' = 0
    /\ pc' = "resolver"
    /\ UNCHANGED <<clientes, carpetas_clientes>>

\* lines 460-487: one page of listar_todas_carpetas (line 531); k entries come
\* back.  HttpError ends the listing (line 492), another error leaves the call.
listar_todas_carpetas(r, k) ==
    /\ pc = "listar"
    /\ refrescos' = IF page_token = 0 THEN refrescos + 1 ELSE refrescos
    /\ \/ /\ r = "exc"
          /\ k = 0
          /\ Excepcion(resueltos, fallo_crear)
          /\ refresco' = "exc"
          /\ UNCHANGED carpetas_cache
       \/ /\ r = "http"
          /\ k = 0
          /\ EmpezarBucle
          /\ refresco' = "http"
          /\ UNCHANGED <<carpetas_cache, job, tabla, traza>>
       \/ /\ r = "ok"
          /\ IF page_token >= Len(Listado)
             THEN k = 0
             ELSE k \in 1..(Len(Listado) - page_token)
          /\ carpetas_cache' =
                CachearPagina(carpetas_cache,
                              SubSeq(Listado, page_token + 1, page_token + k))
          /\ IF page_token + k >= Len(Listado)
             THEN /\ EmpezarBucle
                  /\ refresco' = "ok"
             ELSE /\ page_token' = page_token + k
                  /\ UNCHANGED <<clientes, pendientes, carpetas_clientes, pc, refresco>>
          /\ UNCHANGED <<job, tabla, traza>>
    /\ cache_previo' = IF refresco' = "none" THEN cache_previo ELSE carpetas_cache'
    /\ UNCHANGED <<backend, modo, detenido, aparte, crear_carpetas, pasada>>

\* a search that never finds anything
NoEncontradas(nombre) == {}

\* lines 189-199: the folders a search that did not fail may answer with
Encontradas(nombre) == Coincidencias(nombre)

\* lines 536-545: the loop goes on with the next name
SiguienteNombre ==
    /\ pendientes' = Tail(pendientes)
    /\ pc' = "resolver"

\* buscar_carpeta_por_nombre (lines 171-203) as called at line 425 or 543, and
\* the branch taken on its answer; HttpError answers None (line 203)
buscar_carpeta_por_nombre(r) ==
    /\ pc = "resolver"
    /\ pendientes # <<>>
    /\ LET nombre == Head(pendientes)
           res == [resueltos EXCEPT ![nombre] = @ + 1]
           hallada(id) ==
               /\ carpetas_clientes' = Asignar(carpetas_clientes, nombre, id)
               /\ SiguienteNombre
           no_hallada ==
               IF crear_carpetas
               THEN /\ pc' = "crear"
                    /\ UNCHANGED <<pendientes, carpetas_clientes>>
               ELSE /\ SiguienteNombre
                    /\ UNCHANGED carpetas_clientes
           sigue ==
               /\ resueltos' = res
               /\ UNCHANGED <<clientes, page_token, creados, fallo_crear, job, tabla>>
       IN \/ /\ r = "exc"
             /\ Excepcion(res, fallo_crear)
          \/ /\ r = "http"
             /\ no_hallada
             /\ sigue
          \/ /\ r = "ok"
             /\ IF Encontradas(nombre) # {}
                THEN \E id \in Encontradas(nombre) : hallada(id)
                ELSE no_hallada
             /\ sigue
    /\ UNCHANGED <<backend, modo, detenido, aparte, crear_carpetas, carpetas_cache, pasada,
                   refresh>>

\* crear_carpeta (lines 43-68) as called at line 433; every error is raised
crear_carpeta(r) ==
    /\ pc = "crear"
    /\ LET nombre == Head(pendientes)
       IN \/ /\ r = "ok"
             /\ Len(drive_folders) < MaxFolders
             /\ drive_folders' = Append(drive_folders, Carpeta(nombre, TRUE))
             /\ carpetas_clientes' =
                   Asignar(carpetas_clientes, nombre, Len(drive_folders) + 1)
             /\ creados' = [creados EXCEPT ![nombre] = @ + 1]
             /\ SiguienteNombre
             /\ UNCHANGED <<clientes, page_token, resueltos, fallo_crear, job, tabla>>
          \/ /\ r # "ok"
             /\ Excepcion(resueltos, fallo_crear \cup {nombre})
             /\ UNCHANGED drive_folders
    /\ UNCHANGED <<now, archivos, modo, detenido, aparte, crear_carpetas, carpetas_cache,
                   pasada, refresh>>

\* lines 68-73 of procesar_excel_nuevos: new names, and the ledger
RECURSIVE Registrar(_, _, _)
Registrar(nuevas, procesados, nombres) ==
    IF nombres = <<>> THEN <<nuevas, procesados>>
    ELSE LET nombre == Head(nombres)
             id == carpetas_clientes[nombre]
         IN Registrar(IF EsNuevo(procesados, nombre)
                      THEN Asignar(nuevas, nombre, id) ELSE nuevas,
                      Asignar(procesados, nombre, id),
                      Tail(nombres))

\* line 548: procesar_clientes_desde_excel returns carpetas_clientes; in the
\* job lines 68-73 follow
retornar ==
    /\ pc = "resolver"
    /\ pendientes = <<>>
    /\ IF modo = "job"
       THEN LET reg == Registrar(carpetas_nuevas, clientes_procesados,
                                 Sorted(DOMAIN carpetas_clientes))
            IN /\ carpetas_nuevas' = reg[1]
               /\ clientes_procesados' = reg[2]
               /\ SiguienteCambio
               /\ UNCHANGED <<last_check, llamada, tabla, traza>>
       ELSE FinDirecta
    /\ UNCHANGED <<backend, modo, detenido, aparte, crear_carpetas, carpetas_cache, pasada,
                   refresh>>

\* a pass returned these names as new
Notificar(nuevas) ==
    [n \in Nombres |->
        IF n \in DOMAIN nuevas /\ notificado[n] < 2
        THEN notificado[n] + 1 ELSE notificado[n]]

\* a pass that stays where it is instead of returning
pasada_colgada ==
    /\ pc = "fin"
    /\ UNCHANGED vars

\* lines 45-46 and 78-85: the end of procesar_excel_nuevos, which returns
\* carpetas_nuevas ({} when there were no changes); ejecutar_loop (line 117)
\* calls back when the returned mapping is not empty
terminar_pasada ==
    /\ pc = "fin"
    /\ last_check' = NuevoLastCheck
    /\ notificado' = Notificar(carpetas_nuevas)
    /\ pc' = IF carpetas_nuevas # Vacio THEN "callback" ELSE "idle"
    /\ OlvidarLlamada
    /\ detectados' = {}
    /\ leidos' = {}
    /\ fallidos' = {}
    /\ sondeo' = "none"
    /\ refresco' = "none"
    /\ refrescos' = 0
    /\ UNCHANGED <<backend, modo, detenido, aparte, crear_carpetas, carpetas_cache,
                   clientes_procesados, cambios, carpetas_nuevas, tabla, cache_previo>>

\* the ledger without the names of a mapping
SinClaves(m, quitadas) == [n \in DOMAIN m \ DOMAIN quitadas |-> m[n]]

\* a callback that raises takes the new names out of the ledger again
callback_deshace(r) ==
    /\ pc = "callback"
    /\ r \in {"ok", "exc"}
    /\ pc' = "idle"
    /\ carpetas_nuevas' = Vacio
    /\ clientes_procesados' = IF r = "exc"
                                THEN SinClaves(clientes_procesados, carpetas_nuevas)
                                ELSE clientes_procesados
    /\ UNCHANGED <<backend, modo, detenido, aparte, crear_carpetas, carpetas_cache, last_check,
                   cambios, llamada, tabla, pasada, traza, refresh>>

\* a loop without the handler of line 120: the exception of the callback
\* leaves ejecutar_loop
callback_sin_except(r) ==
    /\ pc = "callback"
    /\ r \in {"ok", "exc"}
    /\ pc' = "idle"
    /\ carpetas_nuevas' = Vacio
    /\ detenido' = (r = "exc")
    /\ UNCHANGED <<backend, modo, aparte, crear_carpetas, carpetas_cache, last_check,
                   clientes_procesados, cambios, llamada, tabla, pasada, traza,
                   refresh>>

\* ejecutar_loop, lines 117-121: the callback, whose exception is caught
callback_on_new(r) ==
    /\ pc = "callback"
    /\ r \in {"ok", "exc"}
    /\ pc' = "idle"
    /\ carpetas_nuevas' = Vacio
    /\ UNCHANGED <<backend, modo, detenido, aparte, crear_carpetas, carpetas_cache, last_check,
                   clientes_procesados, cambios, llamada, tabla, pasada, traza,
                   refresh>>

(***************************************************************************)
(* A direct call of procesar_clientes_desde_excel (ejemplo 6).             *)
(***************************************************************************)
procesar_clientes_desde_excel(t, c) ==
    /\ modo = "directo"
    /\ pc = "idle"
    /\ tabla' = t
    /\ crear_carpetas' = c
    /\ EmpezarClientes(t)
    /\ refrescos' = 0
    /\ UNCHANGED <<backend, modo, detenido, aparte, carpetas_cache, job, pasada>>

(***************************************************************************)
(* The world around the engine.  The steps between the change query and    *)
(* the end of a pass read neither the clock nor a modifiedTime, so time    *)
(* and the spreadsheets move before the query or before the end of a pass. *)
(***************************************************************************)
Tick ==
    /\ pc \in {"idle", "fin"}
    /\ now < MaxClock
    /\ now' = now + 1
    /\ UNCHANGED <<archivos, drive_folders, modo, detenido, aparte, crear_carpetas,
                   carpetas_cache, pc, job, llamada, tabla, pasada, traza, refresh>>

\* somebody saves a spreadsheet of the monitored folder
ModificarArchivo(f) ==
    /\ pc \in {"idle", "fin"}
    /\ archivos[f] # now
    /\ archivos' = [archivos EXCEPT ![f] = now]
    /\ UNCHANGED <<now, drive_folders, modo, detenido, aparte, crear_carpetas,
                   carpetas_cache, pc, job, llamada, tabla, pasada, traza, refresh>>

\* somebody moves a folder to the trash, between two calls
EliminarCarpeta(i) ==
    /\ pc = "idle"
    /\ ~drive_folders[i].trashed
    /\ drive_folders' = [drive_folders EXCEPT ![i].trashed = TRUE]
    /\ UNCHANGED <<now, archivos, modo, detenido, aparte, crear_carpetas,
                   carpetas_cache, pc, job, llamada, tabla, pasada, traza, refresh>>

Llamadas ==
    \/ \E r \in Resultados, k \in 0..MaxFolders : listar_todas_carpetas(r, k)
    \/ \E r \in Resultados : buscar_carpeta_por_nombre(r)
    \/ \E r \in Resultados : crear_carpeta(r)
    \/ retornar

Next ==
    \/ \E r \in Resultados, k \in 0..NumFiles : listar_archivos_excel(r, k)
    \/ \E r \in Resultados : leer_excel_desde_drive(r)
    \/ Llamadas
    \/ terminar_pasada
    \/ \E r \in Resultados : callback_on_new(r)
    \/ Tick
    \/ \E f \in FileIds : ModificarArchivo(f)
    \/ \E i \in 1..Len(drive_folders) : EliminarCarpeta(i)

Spec == Init /\ [][Next]_vars

NextDirecto ==
    \/ \E t \in Tablas, c \in BOOLEAN : procesar_clientes_desde_excel(t, c)
    \/ Llamadas
    \/ \E i \in 1..Len(drive_folders) : EliminarCarpeta(i)

SpecDirecto == InitDirecto /\ [][NextDirecto]_vars

\* Ctrl+C while ejecutar_loop runs: KeyboardInterrupt is not an Exception, so
\* neither handler (lines 75, 120) catches it and the loop ends where it is
\* (ejemplo 8, line 106)
KeyboardInterrupt ==
    /\ modo = "job"
    /\ ~detenido
    /\ detenido' = TRUE
    /\ UNCHANGED <<backend, modo, crear_carpetas, carpetas_cache, pc, job, llamada,
                   tabla, pasada, traza, refresh, aparte>>

\* ejecutar_loop until somebody interrupts it
NextLoop ==
    \/ ~detenido /\ Next
    \/ KeyboardInterrupt

SpecLoop == Init /\ [][NextLoop]_vars

\* the steps of a pass that is under way: the engine is sequential code, and
\* every backend call it waits for returns or fails
Paso ==
    \/ \E r \in Resultados : leer_excel_desde_drive(r)
    \/ Llamadas
    \/ terminar_pasada

\* the job, with a pass that is under way going on
SpecJusto == Init /\ [][Next]_vars /\ WF_vars(Paso)

\* ejecutar_loop that nobody interrupts: a pass under way goes on, and the
\* callback returns or raises
NextBucle == ~detenido /\ Next

SpecBucle ==
    /\ Init
    /\ [][NextBucle]_vars
    /\ WF_vars(~detenido /\ Paso)
    /\ WF_vars(~detenido /\ \E r \in Resultados : callback_on_new(r))

(***************************************************************************)
(* Several engines on one parent folder: each runs obtener_o_crear_carpeta *)
(* (drive.py, lines 411-433) on its own, against the same backend.         *)
(***************************************************************************)

\* one engine alone, or two engines pointed at the same parent
Arranques ==
    { [i \in Instancias |->
          [SinInstancias[i] EXCEPT !.activa = (i = 1 \/ dos)]] : dos \in BOOLEAN }

InitCarrera ==
    /\ InitComun
    /\ modo = "carrera"
    /\ instancias \in Arranques
    /\ subida = SinSubida
    /\ SinCorreo
    /\ SinMonitor

\* what an engine leaves alone
SoloInstancias ==
    UNCHANGED <<now, archivos, modo, detenido, subida, gmail, monitor, crear_carpetas, carpetas_cache,
                pc, job, llamada, tabla, pasada, traza, refresh>>

\* line 411: engine i is asked for the folder of a name
obtener_o_crear_carpeta(i, nombre) ==
    /\ modo = "carrera"
    /\ instancias[i].activa
    /\ instancias[i].pc = "idle"
    /\ instancias' = [instancias EXCEPT ![i].pc = "buscar", ![i].nombre = nombre]
    /\ UNCHANGED drive_folders
    /\ SoloInstancias

\* line 425: the lookup; HttpError answers None (line 203), so line 427 goes on
\* to the create; any other exception leaves the call
carrera_buscar(i, r) ==
    /\ instancias[i].pc = "buscar"
    /\ instancias' =
          [instancias EXCEPT
              ![i].pc = CASE r = "exc" -> "idle"
                          [] r = "http" -> "crear"
                          [] OTHER ->
                              IF Encontradas(instancias[i].nombre) # {}
                              THEN "idle" ELSE "crear",
              ![i].fallo = @ \/ r # "ok"]
    /\ UNCHANGED drive_folders
    /\ SoloInstancias

\* line 433: the create
carrera_crear(i, r) ==
    /\ instancias[i].pc = "crear"
    /\ \/ /\ r = "ok"
          /\ Len(drive_folders) < MaxFolders
          /\ drive_folders' =
                Append(drive_folders, Carpeta(instancias[i].nombre, TRUE))
       \/ /\ r # "ok"
          /\ UNCHANGED drive_folders
    /\ instancias' = [instancias EXCEPT ![i].pc = "idle"]
    /\ SoloInstancias

NextCarrera ==
    \/ \E i \in Instancias, n \in Nombres : obtener_o_crear_carpeta(i, n)
    \/ \E i \in Instancias, r \in Resultados : carrera_buscar(i, r)
    \/ \E i \in Instancias, r \in Resultados : carrera_crear(i, r)

SpecCarrera == InitCarrera /\ [][NextCarrera]_vars

(***************************************************************************)
(* subir_archivo (drive.py, lines 70-112) on an ArchivoCliente              *)
(* (schemas.py, lines 24-42).  An optional field is "none" (None), "vacio"  *)
(* (the empty str or bytes) or "dado".                                      *)
(***************************************************************************)
Opcionales == {"none", "vacio", "dado"}

\* Python truth of an Optional[str] or Optional[bytes]
Cierto(v) == v = "dado"

\* a check that lets every record through
validar_nada(ruta_local, contenido_bytes) == TRUE

\* schemas.py, lines 39-42: FALSE stands for the ValueError
validar_contenido(ruta_local, contenido_bytes) ==
    ~(~Cierto(ruta_local) /\ ~Cierto(contenido_bytes))

\* what an upload leaves alone
SoloSubida ==
    UNCHANGED <<backend, modo, detenido, instancias, gmail, monitor, crear_carpetas, carpetas_cache,
                pc, job, llamada, tabla, pasada, traza, refresh>>

InitSubir ==
    /\ InitComun
    /\ modo = "subir"
    /\ instancias = SinInstancias
    /\ subida = SinSubida
    /\ SinCorreo
    /\ SinMonitor

\* lines 70-82: the call and its validation
subir_archivo(ruta_local, contenido_bytes) ==
    /\ modo = "subir"
    /\ subida.pc = "idle"
    /\ subida' =
          [subida EXCEPT
              !.ruta = ruta_local,
              !.bytes = contenido_bytes,
              !.llamadas = 0,
              !.pc = IF validar_contenido(ruta_local, contenido_bytes)
                     THEN "media" ELSE "idle",
              !.retorno = IF validar_contenido(ruta_local, contenido_bytes)
                          THEN "none" ELSE "ValueError"]
    /\ SoloSubida

\* lines 86-94: the media object, from the file when there is a path and from
\* the bytes otherwise; opening the file may raise, building from bytes that
\* are there does not
construir_media(r) ==
    /\ subida.pc = "media"
    /\ r \in {"ok", "exc"}
    /\ r = "exc" => (Cierto(subida.ruta) \/ ~Cierto(subida.bytes))
    /\ subida' =
          IF r = "ok"
          THEN [subida EXCEPT !.pc = "crear"]
          ELSE [subida EXCEPT !.pc = "idle", !.retorno = "error"]
    /\ SoloSubida

\* lines 96-112: files().create(...).execute(); HttpError is raised again
files_create(r) ==
    /\ subida.pc = "crear"
    /\ \/ /\ r = "ok"
          /\ subida.en_drive < MaxSubidos
          /\ subida' = [subida EXCEPT !.pc = "idle",
                                      !.llamadas = @ + 1,
                                      !.en_drive = @ + 1,
                                      !.retorno = "id"]
       \/ /\ r # "ok"
          /\ subida' = [subida EXCEPT !.pc = "idle",
                                      !.llamadas = @ + 1,
                                      !.retorno = "error"]
    /\ SoloSubida

NextSubir ==
    \/ \E p \in Opcionales, b \in Opcionales : subir_archivo(p, b)
    \/ \E r \in Resultados : construir_media(r)
    \/ \E r \in Resultados : files_create(r)

SpecSubir == InitSubir /\ [][NextSubir]_vars

(***************************************************************************)
(* EmailProcessorJob.procesar_correos_nuevos (email_processor.py, lines     *)
(* 28-108) on GmailService (gmail.py).  MaxResults stands for max_results   *)
(* of buscar_correos (10 in the source); message ids grow with the date.    *)
(***************************************************************************)
Msgs == 1..NumMsgs

LowerChar(c) ==
    CASE c = "R" -> "r"
      [] c = "X" -> "x"
      [] c = "L" -> "l"
      [] c = "S" -> "s"
      [] OTHER -> c

\* str.lower()
Lower(s) == [i \in 1..Len(s) |-> LowerChar(s[i])]

\* str.endswith(suf)
EndsWith(s, suf) ==
    /\ Len(s) >= Len(suf)
    /\ SubSeq(s, Len(s) - Len(suf) + 1, Len(s)) = suf

\* gmail.py, line 174
EsExcel(filename) ==
    \/ EndsWith(Lower(filename), <<".", "x", "l", "s", "x">>)
    \/ EndsWith(Lower(filename), <<".", "x", "l", "s">>)

\* the file names of the attachments a message may carry
Xlsx == <<"r", ".", "x", "l", "s", "x">>
XLS == <<"R", ".", "X", "L", "S">>
Pdf == <<"r", ".", "p", "d", "f">>
SinPunto == <<"x", "l", "s">>
Contenidos(m) ==
    IF m = 1 THEN { <<Xlsx>>, <<XLS, Xlsx>> } ELSE { <<Pdf, SinPunto>>, <<Xlsx>> }

\* the mailboxes the job may find
Buzones == { b \in [Msgs -> UNION { Contenidos(m) : m \in Msgs }] :
               \A m \in Msgs : b[m] \in Contenidos(m) }

InitCorreo ==
    /\ InitComun
    /\ drive_folders = <<>>
    /\ crear_carpetas = FALSE
    /\ modo = "correo"
    /\ instancias = SinInstancias
    /\ subida = SinSubida
    /\ SinMonitor
    /\ guardar_local \in BOOLEAN
    /\ con_destino \in BOOLEAN
    /\ adjuntos \in Buzones
    /\ no_leidos = Msgs
    /\ subidos = [m \in Msgs |-> [i \in 1..Len(adjuntos[m]) |-> 0]]
    /\ guardados = [m \in Msgs |-> [i \in 1..Len(adjuntos[m]) |-> FALSE]]
    /\ fallado = {}
    /\ epc = "idle"
    /\ correos = <<>>
    /\ adj = <<>>
    /\ resultados = <<>>

\* what the e-mail job leaves alone
SoloCorreo ==
    UNCHANGED <<backend, modo, detenido, instancias, subida, monitor, crear_carpetas,
                carpetas_cache, pc, job, llamada, tabla, pasada, traza, refresh,
                guardar_local, con_destino, adjuntos>>

\* the ids of S, the newest first
RECURSIVE Desc(_)
Desc(S) ==
    IF S = {} THEN <<>>
    ELSE LET m == CHOOSE x \in S : \A y \in S : y <= x
         IN <<m>> \o Desc(S \ {m})

\* a list without maxResults: every unread message
ListaSinLimite == Desc(no_leidos)

\* messages().list(q=... is:unread, maxResults): the newest unread messages
ListaNoLeidos ==
    LET q == Desc(no_leidos)
    IN SubSeq(q, 1, IF Len(q) < MaxResults THEN Len(q) ELSE MaxResults)

\* the pass is left by an exception raised while message m is handled
Abortar(m) ==
    /\ epc' = "idle"
    /\ correos' = <<>>
    /\ adj' = <<>>
    /\ resultados' = <<>>
    /\ fallado' = fallado \cup {m}

\* line 57: the for loop goes on with the next message, or the pass returns
SiguienteCorreo ==
    /\ correos' = Tail(correos)
    /\ adj' = <<>>
    /\ epc' = IF Tail(correos) = <<>> THEN "idle" ELSE "correo"

\* lines 70-100: what the body of the attachment loop starts with
PrimerPaso ==
    IF guardar_local THEN "guardar" ELSE IF con_destino THEN "subir" ELSE "marcar"

\* line 70: the for loop goes on with the next attachment, or ends
SiguienteAdjunto ==
    /\ adj' = Tail(adj)
    /\ epc' = IF Tail(adj) = <<>> THEN "marcar" ELSE PrimerPaso

\* buscar_correos (gmail.py, lines 36-67) as called at line 47: the list fails
\* with HttpError (answer: no message) or otherwise (the pass raises); a
\* message whose get fails is left out (lines 107-109), and so is an attachment
\* whose download fails (lines 139-140)
buscar_correos(r) ==
    /\ modo = "correo"
    /\ epc = "idle"
    /\ \/ /\ r = "exc"
          /\ UNCHANGED <<epc, correos, resultados>>
       \/ /\ r = "http"
          /\ correos' = <<>>
          /\ resultados' = <<>>
          /\ UNCHANGED epc
       \/ /\ r = "ok"
          /\ \E vistos \in SUBSET no_leidos :
             \E bajados \in [vistos -> SUBSET (1..2)] :
                /\ \A m \in vistos : bajados[m] \subseteq 1..Len(adjuntos[m])
                /\ LET ids == SelectSeq(ListaNoLeidos, LAMBDA m : m \in vistos)
                   IN /\ Len(ids) = Cardinality(vistos)
                      /\ correos' =
                            [k \in 1..Len(ids) |->
                                [id |-> ids[k],
                                 attachments |->
                                     SelectSeq([i \in 1..Len(adjuntos[ids[k]]) |-> i],
                                               LAMBDA i : i \in bajados[ids[k]])]]
                      /\ epc' = IF ids = <<>> THEN "idle" ELSE "correo"
          /\ resultados' = <<>>
    /\ UNCHANGED <<no_leidos, subidos, guardados, fallado, adj>>
    /\ SoloCorreo

\* lines 62-68: the spreadsheets among the attachments of the current message
extraer_excel_adjuntos ==
    /\ epc = "correo"
    /\ LET c == Head(correos)
           excel == SelectSeq(c.attachments, LAMBDA i : EsExcel(adjuntos[c.id][i]))
       IN IF excel = <<>>
          THEN SiguienteCorreo
          ELSE /\ adj' = excel
               /\ epc' = PrimerPaso
               /\ UNCHANGED correos
    /\ UNCHANGED <<no_leidos, subidos, guardados, fallado, resultados>>
    /\ SoloCorreo

\* lines 72-81: the attachment is written to the local disk
guardar_adjunto(r) ==
    /\ epc = "guardar"
    /\ r \in {"ok", "exc"}
    /\ LET m == Head(correos).id
       IN \/ /\ r = "ok"
             /\ guardados' = [guardados EXCEPT ![m][Head(adj)] = TRUE]
             /\ IF con_destino
                THEN epc' = "subir" /\ UNCHANGED adj
                ELSE SiguienteAdjunto
             /\ UNCHANGED <<correos, resultados, fallado>>
          \/ /\ r = "exc"
             /\ Abortar(m)
             /\ UNCHANGED guardados
    /\ UNCHANGED <<no_leidos, subidos>>
    /\ SoloCorreo

\* lines 84-98: subir_archivo, which raises HttpError again
subir_adjunto(r) ==
    /\ epc = "subir"
    /\ LET m == Head(correos).id
       IN \/ /\ r = "ok"
             /\ subidos[m][Head(adj)] < MaxSubidos
             /\ subidos' = [subidos EXCEPT ![m][Head(adj)] = @ + 1]
             /\ SiguienteAdjunto
             /\ UNCHANGED <<correos, resultados, fallado>>
          \/ /\ r # "ok"
             /\ Abortar(m)
             /\ UNCHANGED subidos
    /\ UNCHANGED <<no_leidos, guardados>>
    /\ SoloCorreo

\* a marcar_como_leido whose request never takes the UNREAD label away
marcar_sin_modificar(r) ==
    /\ epc = "marcar"
    /\ LET m == Head(correos).id
       IN \/ /\ r \in {"ok", "http"}
             /\ resultados' = Append(resultados, m)
             /\ SiguienteCorreo
             /\ UNCHANGED <<fallado, no_leidos>>
          \/ /\ r = "exc"
             /\ Abortar(m)
             /\ UNCHANGED no_leidos
    /\ UNCHANGED <<subidos, guardados>>
    /\ SoloCorreo

\* lines 103-105: marcar_como_leido (gmail.py, lines 152-159), whose HttpError
\* is only printed, and the append to resultados
marcar_como_leido(r) ==
    /\ epc = "marcar"
    /\ LET m == Head(correos).id
       IN \/ /\ r = "ok"
             /\ no_leidos' = no_leidos \ {m}
             /\ resultados' = Append(resultados, m)
             /\ SiguienteCorreo
             /\ UNCHANGED fallado
          \/ /\ r = "http"
             /\ fallado' = fallado \cup {m}
             /\ resultados' = Append(resultados, m)
             /\ SiguienteCorreo
             /\ UNCHANGED no_leidos
          \/ /\ r = "exc"
             /\ Abortar(m)
             /\ UNCHANGED no_leidos
    /\ UNCHANGED <<subidos, guardados>>
    /\ SoloCorreo

NextCorreo ==
    \/ \E r \in Resultados : buscar_correos(r)
    \/ extraer_excel_adjuntos
    \/ \E r \in Resultados : guardar_adjunto(r)
    \/ \E r \in Resultados : subir_adjunto(r)
    \/ \E r \in Resultados : marcar_como_leido(r)

SpecCorreo == InitCorreo /\ [][NextCorreo]_vars

(***************************************************************************)
(* DriveMonitorJob.procesar_cambios (drive_monitor.py, lines 20-67), on    *)
(* the change query and the read of GoogleDriveService.                    *)
(***************************************************************************)
InitMonitor ==
    /\ InitComun
    /\ drive_folders = <<>>
    /\ crear_carpetas = FALSE
    /\ modo = "monitor"
    /\ instancias = SinInstancias
    /\ subida = SinSubida
    /\ SinCorreo
    /\ con_callback \in BOOLEAN
    /\ excel_data_list = <<>>
    /\ avisados = {}
    /\ cb_fallidos = {}

\* what the monitor leaves alone
SoloMonitor ==
    UNCHANGED <<backend, modo, detenido, instancias, subida, gmail, crear_carpetas,
                carpetas_cache, clientes_procesados, llamada, tabla, notificado,
                traza, refresh, con_callback>>

\* lines 36-45: the change query and what follows from its answer
procesar_cambios(r, k) ==
    /\ modo = "monitor"
    /\ pc = "idle"
    /\ \/ /\ r = "exc"
          /\ k = 0
          /\ UNCHANGED <<pc, last_check, cambios, carpetas_nuevas, detectados, sondeo,
                         excel_data_list>>
       \/ /\ r = "http"
          /\ k = 0
          /\ sondeo' = "http"
          /\ SinCambios
          /\ excel_data_list' = <<>>
       \/ /\ r = "ok"
          /\ sondeo' = "ok"
          /\ excel_data_list' = <<>>
          /\ \E q \in OrdenDesc(Modificados(last_check)) :
                IF q = <<>>
                THEN k = 0 /\ SinCambios
                ELSE /\ k \in 1..Len(q)
                     /\ cambios' = PrimeraPagina(q, k)
                     /\ detectados' = Rango(PrimeraPagina(q, k))
                     /\ pc' = "leer"
                     /\ UNCHANGED <<last_check, carpetas_nuevas>>
    /\ UNCHANGED <<leidos, fallidos, avisados, cb_fallidos>>
    /\ SoloMonitor

\* a loop body without the handler of line 63: the exception leaves the for
\* loop and procesar_cambios
callback_sin_handler(r) ==
    /\ modo = "monitor"
    /\ pc = "callback"
    /\ r \in {"ok", "exc"}
    /\ avisados' = avisados \cup {Head(cambios)}
    /\ IF r = "exc"
       THEN /\ cb_fallidos' = cb_fallidos \cup {Head(cambios)}
            /\ cambios' = <<>>
            /\ pc' = "idle"
       ELSE /\ SiguienteCambio
            /\ UNCHANGED cb_fallidos
    /\ UNCHANGED <<last_check, carpetas_nuevas, detectados, leidos, fallidos, sondeo,
                   excel_data_list>>
    /\ SoloMonitor

\* lines 53-56 and 63-64: the read of the next changed file; a read that
\* raises is printed and the loop goes on
leer_cambio(r) ==
    /\ modo = "monitor"
    /\ pc = "leer"
    /\ leidos' = leidos \cup {Head(cambios)}
    /\ \/ /\ r # "ok"
          /\ fallidos' = fallidos \cup {Head(cambios)}
          /\ SiguienteCambio
          /\ UNCHANGED excel_data_list
       \/ /\ r = "ok"
          /\ excel_data_list' = Append(excel_data_list, Head(cambios))
          /\ IF con_callback
             THEN pc' = "callback" /\ UNCHANGED cambios
             ELSE SiguienteCambio
          /\ UNCHANGED fallidos
    /\ UNCHANGED <<last_check, carpetas_nuevas, detectados, sondeo, avisados,
                   cb_fallidos>>
    /\ SoloMonitor

\* lines 59-64: the callback on the file just read; its exception is printed
\* and the loop goes on
callback_on_change(r) ==
    /\ modo = "monitor"
    /\ pc = "callback"
    /\ r \in {"ok", "exc"}
    /\ avisados' = avisados \cup {Head(cambios)}
    /\ cb_fallidos' = IF r = "exc" THEN cb_fallidos \cup {Head(cambios)}
                      ELSE cb_fallidos
    /\ SiguienteCambio
    /\ UNCHANGED <<last_check, carpetas_nuevas, detectados, leidos, fallidos, sondeo,
                   excel_data_list>>
    /\ SoloMonitor

\* lines 40-41 and 66-67: the watermark and the return of the list
retornar_cambios ==
    /\ modo = "monitor"
    /\ pc = "fin"
    /\ last_check' = <<now>>
    /\ pc' = "idle"
    /\ detectados' = {}
    /\ leidos' = {}
    /\ fallidos' = {}
    /\ avisados' = {}
    /\ cb_fallidos' = {}
    /\ sondeo' = "none"
    /\ UNCHANGED <<cambios, carpetas_nuevas, excel_data_list>>
    /\ SoloMonitor

NextMonitor ==
    \/ \E r \in Resultados, k \in 0..NumFiles : procesar_cambios(r, k)
    \/ \E r \in Resultados : leer_cambio(r)
    \/ \E r \in Resultados : callback_on_change(r)
    \/ retornar_cambios
    \/ Tick
    \/ \E f \in FileIds : ModificarArchivo(f)

SpecMonitor == InitMonitor /\ [][NextMonitor]_vars

(***************************************************************************)
(* Properties.                                                             *)
(***************************************************************************)
\* the folders the backend holds (not trashed) that the engine created for a name
HechasPorElMotor(nombre) ==
    { i \in Coincidencias(nombre) : drive_folders[i].byEngine }

Min(S) == CHOOSE x \in S : \A y \in S : x <= y

\* the rows of a spreadsheet, over all its sheets
CeldasDe(t) == UNION { { t[h][f] : f \in 1..Len(t[h]) } : h \in 1..Len(t) }

\* C1: at most one folder per identity: whatever lookup, listing or create call
\* fails, the backend never holds two folders that the engine created under the
\* parent for the same customer name.
C1_UnaCarpetaPorIdentidad ==
    \A n \in Nombres : Cardinality(HechasPorElMotor(n)) <= 1

\* C2: reuse across passes: while the backend holds the folder that the engine
\* created for a name, no create call is issued for that name, and a processing
\* that resolves the name answers with the id of that first folder.
C2_ReusoEntrePasadas ==
    /\ pc = "crear" => HechasPorElMotor(Head(pendientes)) = {}
    /\ \A n \in DOMAIN carpetas_clientes :
          HechasPorElMotor(n) # {} => carpetas_clientes[n] = Min(HechasPorElMotor(n))

\* a row that holds a name: a string with something besides blanks
ConNombre(c) ==
    \/ c.tipo = "str" /\ \E i \in 1..Len(c.txt) : c.txt[i] # Espacio
    \/ c.tipo = "num"

\* the identities extracted for the customer whose canonical name is k
IdentidadesDe(k) == { n \in clientes : validar_mayusculas(n) = k }

\* C3: identity normalization: rows whose names differ only by leading or
\* trailing blanks or by letter case yield one and the same identity, the
\* trimmed, upper-cased name.
C3_IdentidadNormalizada ==
    pc # "idle" =>
        \A c1, c2 \in { c \in CeldasDe(tabla) : ConNombre(c) } :
            validar_mayusculas(c1.txt) = validar_mayusculas(c2.txt)
                => IdentidadesDe(validar_mayusculas(c1.txt)) = {validar_mayusculas(c1.txt)}

\* C4: a name is returned as new by at most one pass over the life of the
\* ledger, the pass that first records it: a name returned as new is in the
\* ledger, and between passes every name of the ledger was returned as new once.
C4_NotificadoUnaVez ==
    \A n \in Nombres :
        /\ notificado[n] <= 1
        /\ notificado[n] = 1 => n \in DOMAIN clientes_procesados
        /\ (pc \in {"idle", "callback"} /\ n \in DOMAIN clientes_procesados)
              => notificado[n] = 1

\* C4 happens: a name that an earlier pass returned as new is provisioned again
\* by a later pass, which does not return it as new.
C4_Witness ==
    \E n \in Nombres :
        /\ pc = "fin"
        /\ notificado[n] = 1
        /\ n \in DOMAIN carpetas_clientes
        /\ n \notin DOMAIN carpetas_nuevas

\* C5: failure isolation per identity: when the create call fails for one name
\* of a spreadsheet, every other name of that spreadsheet is still attempted in
\* the same pass, and the names that got a folder are recorded in the ledger.
C5_AislamientoPorIdentidad ==
    (pc \in {"leer", "fin"} /\ fallo_crear # {}) =>
        /\ \A n \in clientes : resueltos[n] >= 1
        /\ \A n \in DOMAIN carpetas_clientes : n \in DOMAIN clientes_procesados

\* C6, in every state: at the end of a pass every changed spreadsheet was read.
C6_Estado == pc = "fin" => (leidos = detectados /\ cambios = <<>>)

\* C6, in every step: a read that raises adds nothing and the loop goes on with
\* the next change; a spreadsheet that was provisioned goes into the ledger; the
\* end of the pass sets the watermark to the clock.
C6_Paso ==
    /\ (pc = "leer" /\ Head(cambios) \in fallidos') =>
          /\ UNCHANGED <<clientes_procesados, carpetas_nuevas, drive_folders>>
          /\ cambios' = Tail(cambios)
          /\ pc' = IF Tail(cambios) = <<>> THEN "fin" ELSE "leer"
    /\ (pc = "resolver" /\ pendientes = <<>> /\ pc' # "resolver") =>
          /\ crear_carpetas => DOMAIN carpetas_clientes = clientes
          /\ \A n \in DOMAIN carpetas_clientes :
                /\ n \in DOMAIN clientes_procesados'
                /\ clientes_procesados'[n] = carpetas_clientes[n]
    /\ (pc = "fin" /\ pc' # "fin") => last_check' = <<now>>

\* C6: failure isolation per spreadsheet: a read that raises is caught, that
\* spreadsheet contributes nothing, every other changed spreadsheet of the pass
\* is still read and provisioned, and the watermark is advanced at the end.
C6_AislamientoPorExcel == []C6_Estado /\ [][C6_Paso]_vars

\* C6 happens: after a read of the pass raised, a later spreadsheet of the same
\* pass is provisioned to its end.
C6_Witness ==
    /\ pc = "resolver"
    /\ pendientes = <<>>
    /\ fallidos # {}
    /\ crear_carpetas
    /\ clientes # {}
    /\ DOMAIN carpetas_clientes = clientes

\* C7, in every step: a watermark that is set stays set and does not decrease,
\* and the change query of a pass filters by the watermark as the pass before
\* left it.
C7_Paso ==
    /\ last_check # <<>> => (last_check' # <<>> /\ last_check'[1] >= last_check[1])
    /\ (pc = "idle" /\ pc' = "leer") =>
          (detectados' # {} /\ detectados' \subseteq Modificados(last_check))

\* C7: watermark monotonicity: whatever failures a pass had, the watermark never
\* moves backwards and is never reset to None, and the next query uses it.
C7_WatermarkMonotono == [][C7_Paso]_vars

\* C7 happens: a later pass, with a watermark set and a read that failed, is
\* about to record a later watermark.
C7_Witness ==
    /\ pc = "fin"
    /\ last_check # <<>>
    /\ now > last_check[1]
    /\ fallidos # {}

\* C8, in every state: a pass whose poll returned nothing is never at a read, a
\* listing, a lookup or a create, and has nothing to return.
C8_Estado ==
    /\ detectados = {} => pc \in {"idle", "fin", "callback"}
    /\ (pc = "fin" /\ detectados = {}) =>
          /\ leidos = {}
          /\ carpetas_nuevas = Vacio
          /\ resueltos = Cero
          /\ creados = Cero

\* C8, in every step: the poll that returns nothing and the end of that pass
\* leave the ledger, the folders and the cache alone, and the pass ends idle
\* with the watermark set to the clock.
C8_Paso ==
    /\ (pc = "idle" /\ pc' = "fin") =>
          UNCHANGED <<clientes_procesados, drive_folders, carpetas_cache>>
    /\ (pc = "fin" /\ detectados = {}) =>
          /\ UNCHANGED <<clientes_procesados, drive_folders, carpetas_cache>>
          /\ pc' # "fin" => (pc' = "idle" /\ last_check' = <<now>>)

\* C8: zero-event short-circuit: a pass whose poll returns no events reads no
\* spreadsheet, lists, looks up and creates no folder, leaves the ledger
\* unchanged, returns an empty result and advances the watermark.
C8_SinEventos == []C8_Estado /\ [][C8_Paso]_vars

\* C8 happens: a job that has provisioned names polls and finds no change.
C8_Witness ==
    /\ pc = "fin"
    /\ detectados = {}
    /\ last_check # <<>>
    /\ clientes_procesados # Vacio

\* the rows of a spreadsheet that hold a name
FilasConNombre(t) ==
    { <<h, f>> \in (1..MaxHojas) \X (1..MaxFilas) :
        h <= Len(t) /\ f <= Len(t[h]) /\ ConNombre(t[h][f]) }

\* C9: dedup within one table: processing a spreadsheet with crear_carpetas
\* never resolves an extracted name twice nor creates two folders for it,
\* however many rows repeat it; when the processing returns, it has issued one
\* resolve per distinct extracted name, no more than the rows that hold a name,
\* and the returned mapping has exactly one entry per distinct extracted name.
C9_DedupEnTabla ==
    (modo = "directo" /\ pc # "idle" /\ crear_carpetas) =>
        /\ \A n \in Nombres :
              /\ resueltos[n] <= 1
              /\ creados[n] <= 1
              /\ resueltos[n] = 1 => n \in clientes
        /\ Cardinality(clientes) <= Cardinality(FilasConNombre(tabla))
        /\ (pc = "resolver" /\ pendientes = <<>>) =>
              /\ \A n \in clientes : resueltos[n] = 1
              /\ DOMAIN carpetas_clientes = clientes

\* C9 happens: two rows repeat one name; one resolve, one folder created.
C9_Witness ==
    /\ modo = "directo"
    /\ pc = "resolver"
    /\ pendientes = <<>>
    /\ crear_carpetas
    /\ Cardinality(FilasConNombre(tabla)) = 2
    /\ \E n \in Nombres : clientes = {n} /\ resueltos[n] = 1 /\ creados[n] = 1

\* n is a part of the string s
EsParteDe(n, s) == \E i, j \in 1..Len(s) : SubSeq(s, i, j) = n

\* C10: blank rows are excluded: a row without the column, with None, with the
\* empty string or with blanks only yields no identity and no folder lookup or
\* creation; every identity comes from a row that holds a name.
C10_FilasEnBlanco ==
    (modo = "directo" /\ pc # "idle") =>
        /\ \A n \in clientes :
              /\ n # <<>>
              /\ \E c \in CeldasDe(tabla) : ConNombre(c) /\ EsParteDe(n, c.txt)
        /\ \A n \in Nombres :
              (resueltos[n] > 0 \/ creados[n] > 0 \/ n \in DOMAIN carpetas_clientes)
                  => n \in clientes
        /\ (\A c \in CeldasDe(tabla) : ~ConNombre(c)) =>
              /\ clientes = {}
              /\ pc \in {"listar", "resolver"}
              /\ carpetas_clientes = Vacio

\* C10 happens: a spreadsheet of two different blank rows was processed to the
\* end without any lookup.
C10_Witness ==
    /\ modo = "directo"
    /\ pc = "resolver"
    /\ pendientes = <<>>
    /\ Cardinality(CeldasDe(tabla)) = 2
    /\ \A c \in CeldasDe(tabla) : ~ConNombre(c)
    /\ resueltos = Cero

\* C11: atomic refresh: when the paginated folder listing fails, by a backend
\* error or another exception, the folder cache is exactly what it was when the
\* listing started; no entry of a page fetched before the failure is in it.
C11_RefrescoAtomico ==
    [][(pc = "listar" /\ refresco = "none" /\ refresco' \in {"http", "exc"})
          => carpetas_cache' = cache_previo]_vars

\* the index a full listing of the parent gives: name -> id
IndiceDelListado == CachearPagina(Vacio, Listado)

\* C12: rebuild per pass: when the listing at the start of a provisioning ends
\* without error, the folder cache equals exactly the backend's listing of the
\* parent at that moment; no entry of an earlier listing survives.
C12_ReconstruidoPorPasada ==
    [][(pc = "listar" /\ refresco = "none" /\ refresco' = "ok")
          => carpetas_cache' = IndiceDelListado]_vars

\* C13: the reuse path makes no backend call: when the listing of the call
\* ended without error and the cache holds the name that is resolved next, the
\* resolve answers with the cached id and issues neither a search nor a create.
C13_ReusoSinLlamada ==
    [][(/\ pc = "resolver"
        /\ pendientes # <<>>
        /\ refresco = "ok"
        /\ Head(pendientes) \in DOMAIN carpetas_cache)
          => /\ resueltos' = resueltos
             /\ creados' = creados
             /\ pc' = "resolver"
             /\ pendientes' = Tail(pendientes)
             /\ Head(pendientes) \in DOMAIN carpetas_clientes'
             /\ carpetas_clientes'[Head(pendientes)] = carpetas_cache[Head(pendientes)]
       ]_vars

\* C14: register after create: once a folder was created for a name, the folder
\* cache maps that name to the new folder id for the rest of the pass.
C14_RegistradaTrasCrear ==
    \A n \in Nombres :
        (creados[n] >= 1 /\ n \in DOMAIN carpetas_clientes) =>
            /\ n \in DOMAIN carpetas_cache
            /\ carpetas_cache[n] = carpetas_clientes[n]

\* a resolve call of the running pass is still to be made or to be finished
ResolviendoAun == (pc = "resolver" /\ pendientes # <<>>) \/ pc = "crear"

C15_Estado ==
    /\ pc \in {"resolver", "crear"} => refresco \in {"ok", "http"}
    /\ pc = "listar" => (resueltos = Cero /\ creados = Cero /\ refresco = "none")
    /\ pc = "callback" => (cambios = <<>> /\ ~ResolviendoAun)

\* C15, amended, in every step: the ledger is updated only when every resolve
\* call of the spreadsheet at hand has completed, and only with the names
\* resolved for that spreadsheet.
C15_Paso ==
    clientes_procesados' # clientes_procesados =>
        /\ pc = "resolver"
        /\ pendientes = <<>>
        /\ \A n \in DOMAIN clientes_procesados' :
              \/ n \in DOMAIN clientes_procesados
                    /\ clientes_procesados'[n] = clientes_procesados[n]
              \/ n \in DOMAIN carpetas_clientes
                    /\ clientes_procesados'[n] = carpetas_clientes[n]

LeidosBien == leidos \ fallidos

C18_CancelacionEntrePasadas ==
    detenido =>
        /\ pc \in {"idle", "callback"}
        /\ \A n \in Nombres :
              HechasPorElMotor(n) # {} => n \in DOMAIN clientes_procesados

\* C19, in every state: a pass whose change query failed with HttpError has no
\* change to handle and nothing to return.
C19_Estado ==
    sondeo = "http" =>
        /\ pc = "fin"
        /\ cambios = <<>>
        /\ detectados = {}
        /\ leidos = {}
        /\ carpetas_nuevas = Vacio

\* C19, in every step: that pass ends idle with the watermark set to the clock
\* and the ledger as it was.
C19_Paso ==
    (sondeo = "http" /\ sondeo' # "http") =>
        /\ pc' = "idle"
        /\ last_check' = <<now>>
        /\ UNCHANGED <<clientes_procesados, drive_folders>>

\* C19: the watermark advances when the poll itself fails: a change query that
\* fails with a backend (HTTP) error answers the empty list, the pass is handled
\* as a pass without changes, and the watermark is still set to now.
C19_SondeoFallido == []C19_Estado /\ [][C19_Paso]_vars

\* C19 happens: the query failed while a spreadsheet changed after the
\* watermark is waiting, and the watermark is about to move.
C19_Witness ==
    /\ sondeo = "http"
    /\ pc = "fin"
    /\ last_check # <<>>
    /\ Modificados(last_check) # {}

\* C20: poll result: a change query that succeeds returns exactly the
\* spreadsheets of the container that match, all of them when there is no
\* watermark and those modified strictly after the watermark when there is
\* one, however many they are.
C20_ResultadoDelSondeo ==
    [][(pc = "idle" /\ sondeo = "none" /\ sondeo' = "ok")
          => /\ detectados' = Modificados(last_check)
             /\ Rango(cambios') = Modificados(last_check)]_vars

\* the spreadsheet has rows and none of them has the column
SinColumna(t) ==
    /\ CeldasDe(t) # {}
    /\ \A c \in CeldasDe(t) : ~EnFila(c)

\* C21: a missing column is fatal: the processing of a spreadsheet whose rows
\* all lack the name column does not go on to list and resolve, and does not
\* return normally with zero names.
C21_ColumnaAusenteFatal ==
    (modo = "directo" /\ SinColumna(tabla)) =>
        pc \notin {"listar", "resolver", "crear"}

\* C22: non-string values are coerced: every row whose name column holds a
\* number, 0 included, yields the name got by converting the value to a string
\* and normalizing it.
C22_NoTextoConvertido ==
    (modo = "directo" /\ pc # "idle") =>
        \A c \in CeldasDe(tabla) :
            c.tipo = "num" => validar_mayusculas(Str(c)) \in clientes

\* C23: the ledger covers everything provisioned: when a pass has completed,
\* every name for which the backend holds a folder that the engine created is
\* in the ledger, also when a later name of the same spreadsheet failed.
C23_LedgerCubreTodo ==
    (modo = "job" /\ pc \in {"idle", "callback"}) =>
        \A n \in Nombres :
            HechasPorElMotor(n) # {} => n \in DOMAIN clientes_procesados

\* C24: the ledger is never rolled back: no step, whatever read, provisioning
\* or callback failure it is, takes a name out of the ledger.
C24_LedgerSoloCrece ==
    [][DOMAIN clientes_procesados \subseteq DOMAIN clientes_procesados']_vars

\* C24 happens: with names in the ledger, a later pass had a read that raised
\* and a provisioning that raised.
C24_Witness ==
    /\ pc = "fin"
    /\ clientes_procesados # Vacio
    /\ carpetas_nuevas = Vacio
    /\ fallidos # {}
    /\ fallo_crear # {}

\* what a pass hands to its caller: line 85 returns carpetas_nuevas, names with
\* folder ids; the handler of line 75 prints the error and keeps nothing
Informe ==
    [succeededIdentities |-> DOMAIN carpetas_nuevas,
     failedIdentities |-> {},
     failedSpreadsheets |-> {}]

\* C25: aggregated failure report: what a pass returns names the spreadsheets
\* whose read failed and the names whose provisioning failed.
C25_InformeAgregado ==
    pc = "fin" =>
        /\ Informe.failedSpreadsheets = fallidos
        /\ fallo_crear \subseteq Informe.failedIdentities

\* C26: two folders for one identity need two engines on the same parent (or
\* a failed backend call): one engine alone whose lookups all answered never
\* holds two folders it made for one name, while two engines can both miss
\* the folder and both create it
C26_DosInstancias ==
    (\E n \in Nombres : Cardinality(HechasPorElMotor(n)) > 1) =>
        \/ \A i \in Instancias : instancias[i].activa
        \/ \E i \in Instancias : instancias[i].fallo

\* two engines, every lookup answered, and one name has two folders
C26_Witness ==
    /\ \A i \in Instancias : instancias[i].activa /\ ~instancias[i].fallo
    /\ \E n \in Nombres : Cardinality(HechasPorElMotor(n)) > 1

\* the order of the phases: a poll that found changes goes to the read of a
\* spreadsheet and one that found none to the end, a read to the folder listing, the next read or the end, the
\* listing to the per-name resolution, the resolution to the next read or the
\* end, and the end of the pass sets the watermark to the current time
C27_Paso ==
    /\ (pc = "idle" /\ pc' # "idle") =>
           (pc' = "fin" \/ (pc' = "leer" /\ sondeo' = "ok"))
    /\ (pc = "leer" /\ pc' # "leer") => pc' \in {"listar", "fin"}
    /\ (pc = "listar" /\ pc' # "listar") => pc' \in {"resolver", "leer", "fin"}
    /\ (pc = "resolver" /\ pc' # "resolver") => pc' \in {"crear", "leer", "fin"}
    /\ (pc = "crear" /\ pc' # "crear") => pc' \in {"resolver", "leer", "fin"}
    /\ (pc = "fin" /\ pc' # "fin") =>
           (pc' \in {"idle", "callback"} /\ last_check' = <<now>>)

C28_CrearSoloSiAusente ==
    (modo = "job" /\ pc = "crear") => Coincidencias(Head(pendientes)) = {}

\* C29: a call with crear_carpetas = False creates nothing, and when it
\* returns its result holds exactly the extracted names that have a folder
C29_SoloBusqueda ==
    (modo = "directo" /\ ~crear_carpetas /\ pc = "resolver" /\ pendientes = <<>>) =>
        /\ creados = Cero
        /\ DOMAIN carpetas_clientes = { n \in clientes : Coincidencias(n) # {} }

\* C30: for a record that has neither a path nor content the call raises and
\* no backend call is ever under way or issued, and a call that returned a
\* file id issued exactly one create
C30_ValidaAntes ==
    /\ (subida.ruta = "none" /\ subida.bytes = "none") =>
           /\ subida.pc = "idle"
           /\ subida.llamadas = 0
           /\ subida.retorno \in {"none", "ValueError"}
    /\ subida.retorno = "id" => subida.llamadas = 1

\* after an upload that returned an id, a record without path and content
\* has been refused
C30_Witness ==
    /\ subida.ruta = "none"
    /\ subida.bytes = "none"
    /\ subida.retorno = "ValueError"
    /\ subida.en_drive > 0

\* the end of a pass leaves no file that the next query would answer, and a
\* query answers only files modified later than the watermark
C31_Paso ==
    /\ (pc = "fin" /\ pc' # "fin") => Modificados(last_check)' = {}
    /\ (pc = "idle" /\ sondeo' = "ok") => detectados' \subseteq Modificados(last_check)

\* C31: a spreadsheet modified between the change query of a pass and the
\* end of that pass is not later than the watermark the pass sets, so no
\* later query answers it until it is modified again
C31_VentanaPerdida == [][C31_Paso]_vars

\* at the end of a pass, before the watermark is set: a file the query did
\* not answer is newer than every file it answered, so it was modified after
\* the query
C31_Witness ==
    /\ pc = "fin"
    /\ sondeo = "ok"
    /\ detectados # {}
    /\ \E f \in Modificados(last_check) \ detectados :
          \A d \in detectados : archivos[f] > archivos[d]

\* C32: no failure of a pass or of the callback ends ejecutar_loop: no step
\* of the loop stops it, and the loop is again and again at the point where
\* the next pass is triggered
C32_BucleSobrevive ==
    /\ []<>(pc = "idle" /\ ~detenido)
    /\ [][~detenido']_vars

\* the callback has been given the new names of a pass, has returned or
\* raised, and the loop waits for the next pass
C32_Witness ==
    /\ pc = "idle"
    /\ ~detenido
    /\ notificado # Cero
    /\ last_check # <<>>
    /\ carpetas_nuevas = Vacio

\* what the callback is given is in the ledger already
C33_Estado ==
    pc = "callback" =>
        \A n \in DOMAIN carpetas_nuevas :
            n \in DOMAIN clientes_procesados /\ notificado[n] = 1

\* the callback, raising or not, leaves the ledger as it is, and a name that
\* a pass returned once never enters the mapping of new names again
C33_Paso ==
    /\ pc = "callback" => clientes_procesados' = clientes_procesados
    /\ \A n \in DOMAIN carpetas_nuevas' \ DOMAIN carpetas_nuevas : notificado[n] = 0

\* C33: a callback that raised is not given its names again: they are in the
\* ledger when the callback runs and stay there, so no later pass returns
\* them as new
C33_SinReintento == []C33_Estado /\ [][C33_Paso]_vars

\* a later pass has resolved a name that the callback was given before, and
\* is about to return without any new name
C33_Witness ==
    \E n \in Nombres :
        /\ pc = "resolver"
        /\ pendientes = <<>>
        /\ notificado[n] = 1
        /\ n \in DOMAIN carpetas_clientes
        /\ carpetas_nuevas = Vacio
        /\ Len(cambios) = 1

\* the return of the resolution of one spreadsheet puts every name that was
\* found by the lookup alone and is not in the ledger into the mapping of new
\* names, with the id of the folder found; the pass hands that mapping on
C34_Paso ==
    /\ (modo = "job" /\ pc = "resolver" /\ pendientes = <<>>) =>
          \A n \in DOMAIN carpetas_clientes :
              (creados[n] = 0 /\ n \notin DOMAIN clientes_procesados) =>
                  /\ n \in DOMAIN carpetas_nuevas'
                  /\ carpetas_nuevas'[n] = carpetas_clientes[n]
    /\ (pc = "fin" /\ pc' # "fin" /\ carpetas_nuevas # Vacio) =>
          (pc' = "callback" /\ carpetas_nuevas' = carpetas_nuevas)

\* C34: new means new to the ledger: a name whose folder was there before
\* and was reused without a create is returned as new, and given to the
\* callback, when the ledger does not hold it
C34_NuevoParaElLedger == [][C34_Paso]_vars

\* the callback is given a name whose folder the engine never made, on a
\* job that has not returned any other name before
C34_Witness ==
    \E n \in DOMAIN carpetas_nuevas :
        /\ pc = "callback"
        /\ ~drive_folders[carpetas_nuevas[n]].byEngine
        /\ DOMAIN clientes_procesados = DOMAIN carpetas_nuevas

\* the spreadsheet attachments of a message, by their file names
ExcelDe(m) == { i \in 1..Len(adjuntos[m]) : EsExcel(adjuntos[m][i]) }

\* attachment i of message m has been written and uploaded as configured
Manejado(m, i) ==
    /\ guardar_local => guardados[m][i]
    /\ con_destino => subidos[m][i] >= 1

\* C35: a message is marked as read only after every one of its spreadsheet
\* attachments has been saved and uploaded
C35_LeidoTrasManejar ==
    \A m \in Msgs \ no_leidos : \A i \in ExcelDe(m) : Manejado(m, i)

\* C36: uploads are at least once, not exactly once: only a message that is
\* still unread is handled, every pass that gets it uploads its attachments
\* anew, and an attachment has more than one file in the destination only
\* when the handling of its message raised or the message could not be
\* marked as read
C36_AlMenosUnaVez ==
    /\ epc \in {"guardar", "subir", "marcar"} => Head(correos).id \in no_leidos
    /\ \A m \in Msgs : \A i \in 1..Len(adjuntos[m]) :
          subidos[m][i] > 1 => m \in fallado

\* the first of two spreadsheets of a message has two files in the
\* destination, the second one fewer
C36_Witness ==
    \E m \in Msgs :
        /\ Cardinality(ExcelDe(m)) > 1
        /\ subidos[m][1] = 2
        /\ subidos[m][2] < 2
        /\ m \in fallado

\* the messages newer than m that carry no spreadsheet
SinExcelTras(m) == { k \in Msgs : k > m /\ ExcelDe(k) = {} }

\* the ids of the messages a pass still has to handle
EnCurso == { correos[k].id : k \in 1..Len(correos) }

\* the ids a pass has appended to its result
EnResultados == { resultados[k] : k \in 1..Len(resultados) }

\* C37: a message without a spreadsheet attachment is never marked as read
\* and never in the result, so every poll answers it again; when as many of
\* them as a poll fetches are newer than a message, that message is never
\* polled, never uploaded and stays unread
C37_NuncaConsumidos ==
    \A m \in Msgs :
        /\ ExcelDe(m) = {} => (m \in no_leidos /\ m \notin EnResultados)
        /\ Cardinality(SinExcelTras(m)) >= MaxResults =>
              /\ m \in no_leidos
              /\ m \notin EnCurso
              /\ \A i \in 1..Len(adjuntos[m]) : subidos[m][i] = 0 /\ ~guardados[m][i]

\* a pass has skipped one message without spreadsheet and is at the next,
\* while an older message with a spreadsheet waits
C37_Witness ==
    \E m \in Msgs :
        /\ ExcelDe(m) # {}
        /\ Cardinality(SinExcelTras(m)) >= MaxResults
        /\ epc = "correo"
        /\ Len(correos) = 1
        /\ ExcelDe(Head(correos).id) = {}
        /\ Head(correos).id < NumMsgs

\* at the end of the loop every detected file has been read or has failed to
\* read, the list holds the files that were read, each of them was passed to
\* the callback, whether the callback raised or not
C38_Estado ==
    (modo = "monitor" /\ pc = "fin") =>
        /\ leidos = detectados
        /\ Rango(excel_data_list) = leidos \ fallidos
        /\ con_callback => avisados = Rango(excel_data_list)
        /\ cb_fallidos \subseteq Rango(excel_data_list)

\* the callback, raising or not, is followed by the next changed file or by
\* the end of the loop, and the end sets the watermark and returns the list
C38_Paso ==
    /\ (modo = "monitor" /\ pc = "callback") =>
          /\ cambios' = Tail(cambios)
          /\ pc' \in {"leer", "fin"}
    /\ (modo = "monitor" /\ pc = "fin" /\ pc' # "fin") =>
          /\ last_check' = <<now>>
          /\ excel_data_list' = excel_data_list

\* C38: in procesar_cambios a read or a callback that raises for one changed
\* spreadsheet does not keep the others from being read and passed on; a
\* spreadsheet that was read is in the returned list although its callback
\* raised, and the watermark is advanced at the end
C38_AisladoPorArchivo == []C38_Estado /\ [][C38_Paso]_vars

\* the callback raised for the first of two files, and the second was read
\* and passed on
C38_Witness ==
    /\ modo = "monitor"
    /\ pc = "fin"
    /\ Len(excel_data_list) = 2
    /\ cb_fallidos = {excel_data_list[1]}
    /\ avisados = Rango(excel_data_list)
====
